---- MODULE Spec2Model ----
(***************************************************************************)
(* Model of the roku ECP client library (src/src/lib.rs): the Search       *)
(* parameter builder, the Key vocabulary, the Device handle's query and    *)
(* command operations over an HTTP transport, the decode of the            *)
(* media-player document, and SSDP discovery.                              *)
(*                                                                         *)
(* Text is a sequence of atoms: an atom is one character ("?", "/", ",")   *)
(* or a run of characters none of which is special to URL parsing          *)
(* ("keypress", "Lit_", "true").  Option<T> is [some |-> FALSE] or         *)
(* [some |-> TRUE, v |-> x].  Result<T> is [kind |-> "Ok", ...] or         *)
(* [kind |-> "Err", err |-> <variant of Error>].                           *)
(***************************************************************************)
EXTENDS Integers, Sequences, FiniteSets, TLC

VARIABLES
    search,     \* the Search builder under construction (struct Search)
    hist,       \* the setter calls made on the builder so far, in call order
    built,      \* Option: what build() returned once the builder is consumed
    url,        \* the Device handle's base Url (Device.url)
    sent,       \* transport spy: the requests the last operation handed to send()
    net,        \* what the transport answered to those requests, in order
    result,     \* what the last Device operation returned
    last,       \* the last Device operation called and its argument
    mpdoc,      \* the media-player document the device serves
    stream,     \* the SSDP response stream of the current discover() call
    searchOk,   \* whether ssdp_client::search() itself succeeds
    consumed,   \* how many stream items discover() has taken with next()
    devices,    \* discover()'s local Vec<Device>
    dpc,        \* discover()'s position: "start", "loop", "done"
    dresult     \* what discover() returned

searchVars == <<search, hist, built>>
deviceVars == <<url, sent, net, result, last, mpdoc>>
discoverVars == <<stream, searchOk, consumed, devices, dpc, dresult>>
vars == <<search, hist, built, url, sent, net, result, last, mpdoc,
          stream, searchOk, consumed, devices, dpc, dresult>>

\* ---------------------------------------------------------------- bounds
MaxSetterCalls == 3
MaxResponses == 3
MaxMalformed == 1

\* ------------------------------------------------------ Option and Result
None == [some |-> FALSE]
Some(x) == [some |-> TRUE, v |-> x]

Ok(x) == [kind |-> "Ok", v |-> x]
Err(e) == [kind |-> "Err", err |-> e]

\* ------------------------------------------------------------------ text
\* [String]::join(sep)
RECURSIVE Join(_, _)
Join(items, sep) ==
    IF items = <<>> THEN <<>>
    ELSE IF Len(items) = 1 THEN items[1]
    ELSE items[1] \o sep \o Join(Tail(items), sep)

\* bool::to_string
BoolToString(b) == IF b THEN <<"true">> ELSE <<"false">>

Digits == <<"0", "1", "2", "3", "4", "5", "6", "7", "8", "9">>

\* u32::to_string
RECURSIVE U32ToString(_)
U32ToString(n) ==
    IF n < 10 THEN <<Digits[n + 1]>>
    ELSE U32ToString(n \div 10) \o <<Digits[(n % 10) + 1]>>

\* --------------------------------------------------------- Search builder
SearchTypes == {"Movie", "TvShow", "Person", "Channel", "Game"}

SearchTypeToken(t) ==
    CASE t = "Movie" -> <<"movie">>
      [] t = "TvShow" -> <<"tv-show">>
      [] t = "Person" -> <<"person">>
      [] t = "Channel" -> <<"channel">>
      [] t = "Game" -> <<"game">>

\* Search::new
SearchNew(keyword) ==
    [keyword |-> keyword, launch |-> None, match_any |-> None,
     provider_ids |-> None, providers |-> None, search_type |-> None,
     season |-> None, show_unavailable |-> None, title |-> None,
     tmsid |-> None]

Pair(k, v) == [k |-> k, v |-> v]

\* a build() that emits provider before provider-id
buildProviderFirst(s) ==
    <<Pair("keyword", s.keyword)>>
    \o (IF s.launch.some THEN <<Pair("launch", BoolToString(s.launch.v))>> ELSE <<>>)
    \o (IF s.match_any.some THEN <<Pair("match-any", BoolToString(s.match_any.v))>> ELSE <<>>)
    \o (IF s.providers.some THEN <<Pair("provider", Join(s.providers.v, <<",">>))>> ELSE <<>>)
    \o (IF s.provider_ids.some THEN <<Pair("provider-id", Join(s.provider_ids.v, <<",">>))>> ELSE <<>>)
    \o (IF s.search_type.some THEN <<Pair("type", SearchTypeToken(s.search_type.v))>> ELSE <<>>)
    \o (IF s.season.some THEN <<Pair("season", U32ToString(s.season.v))>> ELSE <<>>)
    \o (IF s.show_unavailable.some THEN <<Pair("show-unavailable", BoolToString(s.show_unavailable.v))>> ELSE <<>>)
    \o (IF s.title.some THEN <<Pair("title", s.title.v)>> ELSE <<>>)
    \o (IF s.tmsid.some THEN <<Pair("tmsid", s.tmsid.v)>> ELSE <<>>)

\* Search::build
build(s) ==
    <<Pair("keyword", s.keyword)>>
    \o (IF s.launch.some THEN <<Pair("launch", BoolToString(s.launch.v))>> ELSE <<>>)
    \o (IF s.match_any.some THEN <<Pair("match-any", BoolToString(s.match_any.v))>> ELSE <<>>)
    \o (IF s.provider_ids.some THEN <<Pair("provider-id", Join(s.provider_ids.v, <<",">>))>> ELSE <<>>)
    \o (IF s.providers.some THEN <<Pair("provider", Join(s.providers.v, <<",">>))>> ELSE <<>>)
    \o (IF s.search_type.some THEN <<Pair("type", SearchTypeToken(s.search_type.v))>> ELSE <<>>)
    \o (IF s.season.some THEN <<Pair("season", U32ToString(s.season.v))>> ELSE <<>>)
    \o (IF s.show_unavailable.some THEN <<Pair("show-unavailable", BoolToString(s.show_unavailable.v))>> ELSE <<>>)
    \o (IF s.title.some THEN <<Pair("title", s.title.v)>> ELSE <<>>)
    \o (IF s.tmsid.some THEN <<Pair("tmsid", s.tmsid.v)>> ELSE <<>>)

\* the inputs the setters are called with
Keywords == {<<"k">>}
Names == {<<"a">>, <<"b">>}
Seasons == {0, 12}

Called(f, a) ==
    /\ built = None
    /\ Len(hist) < MaxSetterCalls
    /\ hist' = Append(hist, [f |-> f, a |-> a])
    /\ built' = built

\* Search::launch
Search_launch(b) ==
    /\ Called("launch", b)
    /\ search' = [search EXCEPT !.launch = Some(b)]

\* Search::match_any
match_any(b) ==
    /\ Called("match-any", b)
    /\ search' = [search EXCEPT !.match_any = Some(b)]

\* Search::provider
provider(p) ==
    /\ Called("provider", p)
    /\ search' = [search EXCEPT !.providers =
                     IF search.providers.some
                     THEN Some(Append(search.providers.v, p))
                     ELSE Some(<<>>)]

\* Search::provider_id
provider_id(p) ==
    /\ Called("provider-id", p)
    /\ search' = [search EXCEPT !.provider_ids =
                     IF search.provider_ids.some
                     THEN Some(Append(search.provider_ids.v, p))
                     ELSE Some(<<>>)]

\* Search::search_type
search_type(t) ==
    /\ Called("type", t)
    /\ search' = [search EXCEPT !.search_type = Some(t)]

\* Search::season
season(n) ==
    /\ Called("season", n)
    /\ search' = [search EXCEPT !.season = Some(n)]

\* Search::show_unavailable
show_unavailable(b) ==
    /\ Called("show-unavailable", b)
    /\ search' = [search EXCEPT !.show_unavailable = Some(b)]

\* Search::title
title(t) ==
    /\ Called("title", t)
    /\ search' = [search EXCEPT !.title = Some(t)]

\* Search::tmsid
tmsid(t) ==
    /\ Called("tmsid", t)
    /\ search' = [search EXCEPT !.tmsid = Some(t)]

\* build(self) consumes the builder
Build ==
    /\ built = None
    /\ built' = Some(build(search))
    /\ UNCHANGED <<search, hist>>

\* ------------------------------------------------------------------- Url
\* atoms that begin with a letter (a URL scheme must)
StartsWithLetter(a) == a \in {"http", "h1", "h2", "h3", "keydown", "keyup",
                              "keypress", "launch", "install", "query",
                              "input", "search", "Lit_", "a", "dev"}

SpecialSchemes == {"http", "https", "ws", "wss", "ftp", "file"}

HasScheme(t) == Len(t) >= 2 /\ StartsWithLetter(t[1]) /\ t[2] = ":"

\* index of the first atom of t that is in S, Len(t) + 1 when there is none
RECURSIVE FirstIn(_, _, _)
FirstIn(t, S, i) ==
    IF i > Len(t) THEN i
    ELSE IF t[i] \in S THEN i
    ELSE FirstIn(t, S, i + 1)

\* percent-encoding and backslash handling of one atom of a path, query or
\* fragment of a special-scheme URL ('%' itself is left alone)
EncodeAtom(a) ==
    CASE a = " " -> "%20"
      [] a = "\\" -> "/"
      [] OTHER -> a

EncodeText(t) == [i \in 1..Len(t) |-> EncodeAtom(t[i])]

\* the path, query and fragment of the text that follows the authority (or
\* of a relative reference): '?' opens the query, '#' opens the fragment
ParsePathQueryFragment(t) ==
    LET p == FirstIn(t, {"?", "#"}, 1)
        h == FirstIn(t, {"#"}, 1)
    IN [path |-> EncodeText(SubSeq(t, 1, p - 1)),
        query |-> IF p <= Len(t) /\ t[p] = "?"
                  THEN Some(EncodeText(SubSeq(t, p + 1, h - 1)))
                  ELSE None,
        fragment |-> IF h <= Len(t)
                     THEN Some(EncodeText(SubSeq(t, h + 1, Len(t))))
                     ELSE None]

\* Url::parse
Url_parse(t) ==
    IF ~HasScheme(t) THEN Err("RelativeUrlWithoutBase")
    ELSE
      LET rest == SubSeq(t, 3, Len(t)) IN
      IF Len(rest) >= 2 /\ rest[1] = "/" /\ rest[2] = "/"
      THEN
        LET r == SubSeq(rest, 3, Len(rest))
            e == FirstIn(r, {"/", "?", "#"}, 1)
            pqf == ParsePathQueryFragment(SubSeq(r, e, Len(r)))
        IN IF e = 1 /\ t[1] \in SpecialSchemes THEN Err("EmptyHost")
           ELSE Ok([scheme |-> t[1], base |-> TRUE,
                    authority |-> SubSeq(r, 1, e - 1),
                    path |-> IF pqf.path = <<>> /\ t[1] \in SpecialSchemes
                             THEN <<"/">> ELSE pqf.path,
                    query |-> pqf.query, fragment |-> pqf.fragment])
      ELSE
        LET pqf == ParsePathQueryFragment(rest) IN
        Ok([scheme |-> t[1], base |-> FALSE, authority |-> <<>>,
            path |-> pqf.path, query |-> pqf.query,
            fragment |-> pqf.fragment])

\* index of the last "/" of a path, 0 when there is none
RECURSIVE LastSlash(_, _)
LastSlash(p, i) ==
    IF i = 0 THEN 0
    ELSE IF p[i] = "/" THEN i
    ELSE LastSlash(p, i - 1)

\* Url::join: the reference resolved against the base
Url_join(b, rel) ==
    IF HasScheme(rel) THEN Url_parse(rel)
    ELSE IF ~b.base THEN
      IF rel # <<>> /\ rel[1] = "#"
      THEN Ok([b EXCEPT !.fragment = Some(EncodeText(Tail(rel)))])
      ELSE Err("RelativeUrlWithCannotBeABaseBase")
    ELSE
      LET pqf == ParsePathQueryFragment(rel) IN
      IF rel = <<>> THEN Ok([b EXCEPT !.fragment = None])
      ELSE IF rel[1] = "#" THEN Ok([b EXCEPT !.fragment = pqf.fragment])
      ELSE IF rel[1] = "?"
      THEN Ok([b EXCEPT !.query = pqf.query, !.fragment = pqf.fragment])
      ELSE IF rel[1] = "/"
      THEN Ok([b EXCEPT !.path = pqf.path, !.query = pqf.query,
                         !.fragment = pqf.fragment])
      ELSE Ok([b EXCEPT !.path = SubSeq(b.path, 1, LastSlash(b.path, Len(b.path)))
                                   \o pqf.path,
                         !.query = pqf.query, !.fragment = pqf.fragment])

\* ------------------------------------------------------------------- Key
NamedKeys == {"Back", "Backspace", "ChannelDown", "ChannelUp", "Down",
              "Enter", "FindRemote", "Fwd", "Home", "Info", "InputAV1",
              "InputHDMI1", "InputHDMI2", "InputHDMI3", "InputHDMI4",
              "InputTuner", "InstantReplay", "Left", "Play", "PowerOff",
              "Rev", "Right", "Search", "Select", "Up", "VolumeDown",
              "VolumeMute", "VolumeUp"}

\* the characters Lit is exercised with
LitChars == {"a", "5", "?", "#", "/", "%", " "}

Keys == [tag : NamedKeys] \cup [tag : {"Lit"}, c : LitChars]

\* impl fmt::Display for Key
Key_to_string(key) ==
    CASE key.tag = "Back" -> <<"Back">>
      [] key.tag = "Backspace" -> <<"Backspace">>
      [] key.tag = "ChannelDown" -> <<"ChannelDown">>
      [] key.tag = "ChannelUp" -> <<"ChannelUp">>
      [] key.tag = "Down" -> <<"Down">>
      [] key.tag = "Enter" -> <<"Enter">>
      [] key.tag = "FindRemote" -> <<"FindRemote">>
      [] key.tag = "Fwd" -> <<"Fwd">>
      [] key.tag = "Home" -> <<"Home">>
      [] key.tag = "Info" -> <<"Info">>
      [] key.tag = "InputAV1" -> <<"InputAV1">>
      [] key.tag = "InputHDMI1" -> <<"InputHDMI1">>
      [] key.tag = "InputHDMI2" -> <<"InputHDMI2">>
      [] key.tag = "InputHDMI3" -> <<"InputHDMI3">>
      [] key.tag = "InputHDMI4" -> <<"InputHDMI4">>
      [] key.tag = "InputTuner" -> <<"InputTuner">>
      [] key.tag = "InstantReplay" -> <<"InstantReplay">>
      [] key.tag = "Left" -> <<"Left">>
      [] key.tag = "Play" -> <<"Play">>
      [] key.tag = "PowerOff" -> <<"PowerOff">>
      [] key.tag = "Rev" -> <<"Rev">>
      [] key.tag = "Right" -> <<"Right">>
      [] key.tag = "Search" -> <<"Search">>
      [] key.tag = "Select" -> <<"Select">>
      [] key.tag = "Up" -> <<"Up">>
      [] key.tag = "VolumeDown" -> <<"VolumeDown">>
      [] key.tag = "VolumeMute" -> <<"VolumeMute">>
      [] key.tag = "VolumeUp" -> <<"VolumeUp">>
      [] key.tag = "Lit" -> <<"Lit_", key.c>>

\* -------------------------------------------------------- error variants
\* enum Error
Error_Request == [variant |-> "Request"]
Error_SSDPRequest == [variant |-> "SSDPRequest"]
Error_URLParse(e) == [variant |-> "URLParse", detail |-> e]
Error_XMLParse == [variant |-> "XMLParse"]
Error_Argument(msg) == [variant |-> "Argument", detail |-> msg]

\* ----------------------------------------------------------- wire models
\* A document is well-formed markup or not; a well-formed one gives every
\* field of the target struct a status: "absent", "ok" (present and of the
\* field's type) or "bad" (present, not decodable as the field's type).
FieldStatus == {"absent", "ok", "bad"}
NotXml == [wf |-> FALSE, f |-> <<>>]
Doc(f) == [wf |-> TRUE, f |-> f]

\* struct Apps
AppsRequired == {"app"}
AppsOptional == {}

\* struct ActiveApp
ActiveAppRequired == {"app"}
ActiveAppOptional == {"screensaver"}

\* a MediaPlayer whose only required field is state
MediaPlayerRequiredStateOnly == {"state"}

\* struct MediaPlayer: the fields that are not Option<_>
MediaPlayerRequired == {"error", "state"}

\* struct MediaPlayer: the Option<_> fields
MediaPlayerOptional == {"buffering", "duration", "format", "is_live",
                        "new_stream", "plugin", "position", "runtime",
                        "stream_segment"}

MediaPlayerFields == {"error", "state", "buffering", "duration", "format",
                      "is_live", "new_stream", "plugin", "position",
                      "runtime", "stream_segment"}

\* struct DeviceInfo (wire names: kebab-case, one irregular)
DeviceInfoOptional == {"ethernet-mac"}
DeviceInfoRequired ==
    {"advertising-id", "build-number", "can-use-wifi-extender",
     "clock-format", "country", "davinci-version", "default-device-name",
     "developer-enabled", "device-id", "find-remote-is-possible",
     "friendly-device-name", "friendly-model-name", "grandcentral-version",
     "has-mobile-screensaver", "has-play-on-roku", "has-wifi-5G-support",
     "has-wifi-extender", "headphones-connected", "is-stick", "is-tv",
     "keyed-developer-id", "language", "locale", "model-name",
     "model-number", "model-region", "network-name", "network-type",
     "notifications-enabled", "notifications-first-use", "power-mode",
     "search-channels-enabled", "search-enabled", "secure-device",
     "serial-number", "software-build", "software-version", "support-url",
     "supports-audio-guide", "supports-ecs-microphone",
     "supports-ecs-textedit", "supports-ethernet", "supports-find-remote",
     "supports-private-listening", "supports-rva", "supports-suspend",
     "supports-wake-on-wlan", "time-zone", "time-zone-auto",
     "time-zone-name", "time-zone-offset", "time-zone-tz", "udn", "uptime",
     "user-device-location", "user-device-name", "vendor-name",
     "voice-search-enabled", "wifi-driver", "wifi-mac"}

\* serde_xml_rs::from_str into a struct with the given required and
\* Option<_> fields; the decoded value records which fields are present
from_str(doc, Req, Opt) ==
    IF ~doc.wf THEN Err(Error_XMLParse)
    ELSE IF \E f \in Req : doc.f[f] # "ok" THEN Err(Error_XMLParse)
    ELSE IF \E f \in Opt : doc.f[f] = "bad" THEN Err(Error_XMLParse)
    ELSE Ok([f \in Req \cup Opt |-> doc.f[f] = "ok"])

\* the documents the queries are exercised with
AllOk(F) == [f \in F |-> "ok"]
AppsDocs == {NotXml} \cup {Doc(f) : f \in [AppsRequired -> FieldStatus]}
ActiveAppDocs ==
    {NotXml} \cup
    {Doc(f) : f \in [ActiveAppRequired \cup ActiveAppOptional -> FieldStatus]}
DeviceInfoAllOk == AllOk(DeviceInfoRequired \cup DeviceInfoOptional)
DeviceInfoDocs ==
    {NotXml, Doc(DeviceInfoAllOk),
     Doc([DeviceInfoAllOk EXCEPT !["ethernet-mac"] = "absent"]),
     Doc([DeviceInfoAllOk EXCEPT !["has-wifi-5G-support"] = "absent"]),
     Doc([DeviceInfoAllOk EXCEPT !["uptime"] = "bad"])}
\* every media-player document with at most MaxMalformed malformed fields
MediaPlayerDocs ==
    {NotXml} \cup
    {Doc(f) : f \in {g \in [MediaPlayerFields -> FieldStatus] :
                        Cardinality({x \in MediaPlayerFields : g[x] = "bad"})
                            <= MaxMalformed}}
StateOnly == Doc([f \in MediaPlayerFields |-> IF f = "state" THEN "ok" ELSE "absent"])
StateAndError ==
    Doc([f \in MediaPlayerFields |-> IF f \in MediaPlayerRequired THEN "ok" ELSE "absent"])
FewMediaPlayerDocs == {StateOnly, Doc(AllOk(MediaPlayerFields))}

\* ------------------------------------------------------------- transport
Statuses == {200, 404}
Is2xx(st) == st >= 200 /\ st < 300

\* what send() can do to a command: fail, or deliver a response of any status
SendOutcomes == {[ok |-> FALSE]} \cup [ok : {TRUE}, status : Statuses]

\* what send() then text() can do to a query whose body would be one of docs
QueryOutcomes(docs) ==
    {[ok |-> FALSE]}
    \cup [ok : {TRUE}, status : Statuses, read : {FALSE}]
    \cup [ok : {TRUE}, status : Statuses, read : {TRUE}, body : docs]

Get(u) == [method |-> "GET", url |-> u, query |-> <<>>]
Post(u, q) == [method |-> "POST", url |-> u, query |-> q]
Unit == <<>>

\* an operation of the Device returns: the spy and the result are recorded
Returns(op, arg, reqs, answers, res) ==
    /\ last' = [op |-> op, arg |-> arg]
    /\ sent' = reqs
    /\ net' = answers
    /\ result' = res
    /\ UNCHANGED <<url, mpdoc, searchVars, discoverVars>>

\* the ? of send().await? / text().await? on a query's transport outcome,
\* then from_str
Decoded(o, Req, Opt) ==
    IF ~o.ok THEN Err(Error_Request)
    ELSE IF ~o.read THEN Err(Error_Request)
    ELSE from_str(o.body, Req, Opt)

\* an apps() that sends the request again when the first send fails
appsRetry(o) ==
    LET j == Url_join(url, <<"query", "/", "apps">>) IN
    IF j.kind = "Err"
    THEN Returns("apps", Unit, <<>>, <<>>, Err(Error_URLParse(j.err)))
    ELSE IF ~o.ok
    THEN \E o2 \in QueryOutcomes(AppsDocs) :
            Returns("apps", Unit, <<Get(j.v), Get(j.v)>>, <<o, o2>>,
                    Decoded(o2, AppsRequired, AppsOptional))
    ELSE Returns("apps", Unit, <<Get(j.v)>>, <<o>>,
                 Decoded(o, AppsRequired, AppsOptional))

\* Device::apps
apps(o) ==
    LET j == Url_join(url, <<"query", "/", "apps">>) IN
    IF j.kind = "Err"
    THEN Returns("apps", Unit, <<>>, <<>>, Err(Error_URLParse(j.err)))
    ELSE Returns("apps", Unit, <<Get(j.v)>>, <<o>>,
                 Decoded(o, AppsRequired, AppsOptional))

\* Device::active_app
active_app(o) ==
    LET j == Url_join(url, <<"query", "/", "active-app">>) IN
    IF j.kind = "Err"
    THEN Returns("active_app", Unit, <<>>, <<>>, Err(Error_URLParse(j.err)))
    ELSE Returns("active_app", Unit, <<Get(j.v)>>, <<o>>,
                 Decoded(o, ActiveAppRequired, ActiveAppOptional))

\* Device::media_player
media_player(o) ==
    LET j == Url_join(url, <<"query", "/", "media-player">>) IN
    IF j.kind = "Err"
    THEN Returns("media_player", Unit, <<>>, <<>>, Err(Error_URLParse(j.err)))
    ELSE Returns("media_player", Unit, <<Get(j.v)>>, <<o>>,
                 Decoded(o, MediaPlayerRequired, MediaPlayerOptional))

\* Device::device_info
device_info(o) ==
    LET j == Url_join(url, <<"query", "/", "device-info">>) IN
    IF j.kind = "Err"
    THEN Returns("device_info", Unit, <<>>, <<>>, Err(Error_URLParse(j.err)))
    ELSE Returns("device_info", Unit, <<Get(j.v)>>, <<o>>,
                 Decoded(o, DeviceInfoRequired, DeviceInfoOptional))

\* self.client.post(url).send().await?; Ok(())
Posted(o) == IF o.ok THEN Ok(Unit) ELSE Err(Error_Request)

\* Device::keydown
keydown(key, o) ==
    LET j == Url_join(url, <<"keydown", "/">> \o Key_to_string(key)) IN
    IF j.kind = "Err"
    THEN Returns("keydown", key, <<>>, <<>>, Err(Error_URLParse(j.err)))
    ELSE Returns("keydown", key, <<Post(j.v, <<>>)>>, <<o>>, Posted(o))

\* Device::keyup
keyup(key, o) ==
    LET j == Url_join(url, <<"keyup", "/">> \o Key_to_string(key)) IN
    IF j.kind = "Err"
    THEN Returns("keyup", key, <<>>, <<>>, Err(Error_URLParse(j.err)))
    ELSE Returns("keyup", key, <<Post(j.v, <<>>)>>, <<o>>, Posted(o))

\* Device::keypress
keypress(key, o) ==
    LET j == Url_join(url, <<"keypress", "/">> \o Key_to_string(key)) IN
    IF j.kind = "Err"
    THEN Returns("keypress", key, <<>>, <<>>, Err(Error_URLParse(j.err)))
    ELSE Returns("keypress", key, <<Post(j.v, <<>>)>>, <<o>>, Posted(o))

AppIdRequired == <<"app.id required">>

\* a launch() that builds the URL and posts before it looks at app.id
launchPostFirst(app, o) ==
    LET j == Url_join(url, <<"launch", "/">> \o (IF app.id.some THEN app.id.v ELSE <<>>)) IN
    IF j.kind = "Err"
    THEN Returns("launch", app, <<>>, <<>>, Err(Error_URLParse(j.err)))
    ELSE IF ~app.id.some
    THEN Returns("launch", app, <<Post(j.v, <<>>)>>, <<o>>,
                 Err(Error_Argument(AppIdRequired)))
    ELSE Returns("launch", app, <<Post(j.v, <<>>)>>, <<o>>, Posted(o))

\* Device::launch
launch(app, o) ==
    IF ~app.id.some
    THEN Returns("launch", app, <<>>, <<>>, Err(Error_Argument(AppIdRequired)))
    ELSE
      LET j == Url_join(url, <<"launch", "/">> \o app.id.v) IN
      IF j.kind = "Err"
      THEN Returns("launch", app, <<>>, <<>>, Err(Error_URLParse(j.err)))
      ELSE Returns("launch", app, <<Post(j.v, <<>>)>>, <<o>>, Posted(o))

\* Device::install
install(app, o) ==
    IF ~app.id.some
    THEN Returns("install", app, <<>>, <<>>, Err(Error_Argument(AppIdRequired)))
    ELSE
      LET j == Url_join(url, <<"install", "/">> \o app.id.v) IN
      IF j.kind = "Err"
      THEN Returns("install", app, <<>>, <<>>, Err(Error_URLParse(j.err)))
      ELSE Returns("install", app, <<Post(j.v, <<>>)>>, <<o>>, Posted(o))

\* Device::input
input(pairs, o) ==
    LET j == Url_join(url, <<"input">>) IN
    IF j.kind = "Err"
    THEN Returns("input", pairs, <<>>, <<>>, Err(Error_URLParse(j.err)))
    ELSE Returns("input", pairs, <<Post(j.v, pairs)>>, <<o>>, Posted(o))

\* Device::search
Device_search(s, o) ==
    LET q == build(s)
        j == Url_join(url, <<"search">>)
    IN IF j.kind = "Err"
       THEN Returns("search", s, <<>>, <<>>, Err(Error_URLParse(j.err)))
       ELSE Returns("search", s, <<Post(j.v, q)>>, <<o>>, Posted(o))

\* the arguments the Device operations are exercised with
AppInputs == {[id |-> None, name |-> <<"Roku">>, version |-> None],
              [id |-> Some(<<"12">>), name |-> <<"Netflix">>, version |-> Some(<<"4.1">>)],
              [id |-> Some(<<"dev">>), name |-> <<"Dev">>, version |-> None]}
InputPairs == {<<>>, <<Pair("a", <<"1">>)>>, <<Pair("b", <<"2">>), Pair("a", <<"1">>)>>}
Searches ==
    {SearchNew(<<"k">>),
     [SearchNew(<<"k">>) EXCEPT !.title = Some(<<"a">>), !.launch = Some(TRUE)],
     [SearchNew(<<"k">>) EXCEPT !.providers = Some(<<<<"a">>, <<"b">>>>)]}

\* addresses a Device is made from
LocRoot == <<"http", ":", "/", "/", "h1", ":", "8060", "/">>
LocNoSlash == <<"http", ":", "/", "/", "h2", ":", "8060">>
LocOpaque == <<"h3", ":", "8060">>
LocNoScheme == <<"10.0.0.5", ":", "8060">>

\* Device::new
Device_new(u) == [url |-> u]

DeviceUrls == {Url_parse(l).v : l \in {LocRoot, LocOpaque}}

\* ------------------------------------------------------------- discovery
\* ssdp_client::search arguments
SearchTimeoutSecs == 3
SearchMx == 2
SearchTarget == <<"roku", "ecp">>

FailedItem == [ok |-> FALSE]
Response(l) == [ok |-> TRUE, location |-> l]
Items == {FailedItem} \cup {Response(l) : l \in {LocRoot, LocNoSlash, LocOpaque, LocNoScheme}}
Streams == UNION {[1..n -> Items] : n \in 0..MaxResponses}

Finished(r) ==
    /\ dresult' = r
    /\ dpc' = "done"

\* a loop step that skips a response whose location does not parse
discover_nextSkipMalformed ==
    /\ dpc = "loop"
    /\ UNCHANGED <<stream, searchOk, searchVars, deviceVars>>
    /\ IF consumed = Len(stream)
       THEN Finished(Ok(devices)) /\ UNCHANGED <<consumed, devices>>
       ELSE LET response == stream[consumed + 1] IN
            /\ consumed' = consumed + 1
            /\ IF ~response.ok
               THEN Finished(Err(Error_SSDPRequest)) /\ UNCHANGED devices
               ELSE LET u == Url_parse(response.location) IN
                    /\ devices' = IF u.kind = "Err" THEN devices
                                  ELSE Append(devices, Device_new(u.v))
                    /\ UNCHANGED <<dpc, dresult>>

\* a loop step that drops a response whose location it already has
discover_nextDedup ==
    /\ dpc = "loop"
    /\ UNCHANGED <<stream, searchOk, searchVars, deviceVars>>
    /\ IF consumed = Len(stream)
       THEN Finished(Ok(devices)) /\ UNCHANGED <<consumed, devices>>
       ELSE LET response == stream[consumed + 1] IN
            /\ consumed' = consumed + 1
            /\ IF ~response.ok
               THEN Finished(Err(Error_SSDPRequest)) /\ UNCHANGED devices
               ELSE LET u == Url_parse(response.location) IN
                    IF u.kind = "Err"
                    THEN Finished(Err(Error_URLParse(u.err))) /\ UNCHANGED devices
                    ELSE /\ devices' =
                              IF \E i \in 1..Len(devices) : devices[i] = Device_new(u.v)
                              THEN devices
                              ELSE Append(devices, Device_new(u.v))
                         /\ UNCHANGED <<dpc, dresult>>

\* a loop step that ends the collection at a failed item and returns what it has
discover_nextPartial ==
    /\ dpc = "loop"
    /\ UNCHANGED <<stream, searchOk, searchVars, deviceVars>>
    /\ IF consumed = Len(stream)
       THEN Finished(Ok(devices)) /\ UNCHANGED <<consumed, devices>>
       ELSE LET response == stream[consumed + 1] IN
            /\ consumed' = consumed + 1
            /\ IF ~response.ok
               THEN Finished(Ok(devices)) /\ UNCHANGED devices
               ELSE LET u == Url_parse(response.location) IN
                    IF u.kind = "Err"
                    THEN Finished(Err(Error_URLParse(u.err))) /\ UNCHANGED devices
                    ELSE /\ devices' = Append(devices, Device_new(u.v))
                         /\ UNCHANGED <<dpc, dresult>>

\* Device::discover, the search call: search(&search_target, 3 s, 2).await?
discover_search ==
    /\ dpc = "start"
    /\ UNCHANGED <<stream, searchOk, consumed, devices, searchVars, deviceVars>>
    /\ IF searchOk
       THEN dpc' = "loop" /\ UNCHANGED dresult
       ELSE Finished(Err(Error_SSDPRequest))

\* Device::discover, one turn of while let Some(response) = responses.next().await
discover_next ==
    /\ dpc = "loop"
    /\ UNCHANGED <<stream, searchOk, searchVars, deviceVars>>
    /\ IF consumed = Len(stream)
       THEN Finished(Ok(devices)) /\ UNCHANGED <<consumed, devices>>
       ELSE LET response == stream[consumed + 1] IN
            /\ consumed' = consumed + 1
            /\ IF ~response.ok
               THEN Finished(Err(Error_SSDPRequest)) /\ UNCHANGED devices
               ELSE LET u == Url_parse(response.location) IN
                    IF u.kind = "Err"
                    THEN Finished(Err(Error_URLParse(u.err))) /\ UNCHANGED devices
                    ELSE /\ devices' = Append(devices, Device_new(u.v))
                         /\ UNCHANGED <<dpc, dresult>>

\* -------------------------------------------------------- specifications
NoResult == [kind |-> "None"]

SearchIdle == search = SearchNew(<<"k">>) /\ hist = <<>> /\ built = None
DeviceIdle ==
    /\ url = Url_parse(LocRoot).v
    /\ sent = <<>> /\ net = <<>> /\ result = NoResult
    /\ last = [op |-> "new", arg |-> Unit]
DiscoverIdle ==
    /\ stream = <<>> /\ searchOk = TRUE /\ consumed = 0
    /\ devices = <<>> /\ dpc = "start" /\ dresult = NoResult

\* the builder: Search::new, then setters in any order, then build
InitSearch ==
    /\ search \in {SearchNew(k) : k \in Keywords}
    /\ hist = <<>> /\ built = None
    /\ DeviceIdle /\ mpdoc = StateAndError
    /\ DiscoverIdle

Setter ==
    \/ \E b \in BOOLEAN : Search_launch(b)
    \/ \E b \in BOOLEAN : match_any(b)
    \/ \E p \in Names : provider(p)
    \/ \E p \in Names : provider_id(p)
    \/ \E t \in SearchTypes : search_type(t)
    \/ \E n \in Seasons : season(n)
    \/ \E b \in BOOLEAN : show_unavailable(b)
    \/ \E t \in Names : title(t)
    \/ \E t \in Names : tmsid(t)

NextSearch ==
    \/ Setter /\ UNCHANGED <<deviceVars, discoverVars>>
    \/ Build /\ UNCHANGED <<deviceVars, discoverVars>>

SpecSearch == InitSearch /\ [][NextSearch]_vars

\* a Device made from an address, then any operations on it
InitDevice ==
    /\ url \in DeviceUrls
    /\ sent = <<>> /\ net = <<>> /\ result = NoResult
    /\ last = [op |-> "new", arg |-> Unit]
    /\ mpdoc \in FewMediaPlayerDocs
    /\ SearchIdle /\ DiscoverIdle

NextDevice ==
    \/ \E o \in QueryOutcomes(AppsDocs) : apps(o)
    \/ \E o \in QueryOutcomes(ActiveAppDocs) : active_app(o)
    \/ \E o \in QueryOutcomes({mpdoc}) : media_player(o)
    \/ \E o \in QueryOutcomes(DeviceInfoDocs) : device_info(o)
    \/ \E key \in Keys, o \in SendOutcomes : keydown(key, o)
    \/ \E key \in Keys, o \in SendOutcomes : keyup(key, o)
    \/ \E key \in Keys, o \in SendOutcomes : keypress(key, o)
    \/ \E app \in AppInputs, o \in SendOutcomes : launch(app, o)
    \/ \E app \in AppInputs, o \in SendOutcomes : install(app, o)
    \/ \E pairs \in InputPairs, o \in SendOutcomes : input(pairs, o)
    \/ \E s \in Searches, o \in SendOutcomes : Device_search(s, o)

SpecDevice == InitDevice /\ [][NextDevice]_vars

\* the media-player query against every document the device may serve
InitMedia ==
    /\ url = Url_parse(LocRoot).v
    /\ sent = <<>> /\ net = <<>> /\ result = NoResult
    /\ last = [op |-> "new", arg |-> Unit]
    /\ mpdoc \in MediaPlayerDocs
    /\ SearchIdle /\ DiscoverIdle

NextMedia == \E o \in QueryOutcomes({mpdoc}) : media_player(o)

SpecMedia == InitMedia /\ [][NextMedia]_vars

\* one discover() call against every response stream
InitDiscover ==
    /\ stream \in Streams
    /\ searchOk \in BOOLEAN
    /\ consumed = 0 /\ devices = <<>> /\ dpc = "start" /\ dresult = NoResult
    /\ SearchIdle /\ DeviceIdle /\ mpdoc = StateAndError

NextDiscover ==
    \/ discover_search
    \/ discover_next

SpecDiscover == InitDiscover /\ [][NextDiscover]_vars

\* ------------------------------------------------------------ properties
\* the arguments of the calls of setter f, in call order
RECURSIVE ItemsOf(_, _)
ItemsOf(h, f) ==
    IF h = <<>> THEN <<>>
    ELSE (IF Head(h).f = f THEN <<Head(h).a>> ELSE <<>>) \o ItemsOf(Tail(h), f)

ListFilters == {"provider", "provider-id"}

\* C1: after n >= 1 calls of a list-valued filter's setter with items
\* i1..in, build() emits that filter's pair with value i1,i2,...,in: every
\* item, in call order, joined by "," with no leading or trailing separator.
C1_ListValueIsAllItemsJoined ==
    built.some =>
        \A f \in ListFilters :
            LET items == ItemsOf(hist, f) IN
            Len(items) >= 1 =>
                \E i \in 1..Len(built.v) :
                    /\ built.v[i].k = f
                    /\ built.v[i].v = Join(items, <<",">>)

\* C2: launch and install with an App whose id is absent return the
\* Argument error and hand nothing to the transport, whatever the base
\* address is (the check precedes the URL join).
C2_MissingIdIsArgumentErrorNoRequest ==
    (last.op \in {"launch", "install"} /\ ~last.arg.id.some) =>
        /\ result.kind = "Err"
        /\ result.err.variant = "Argument"
        /\ sent = <<>>

\* launch was called with an id-less App on a Device whose address cannot be
\* joined, so the order of the two checks shows
C2_Witness ==
    /\ last.op = "launch"
    /\ ~last.arg.id.some
    /\ ~url.base
    /\ result.kind = "Err"

FixedOrder == <<"launch", "match-any", "provider-id", "provider", "type",
                "season", "show-unavailable", "title", "tmsid">>
OrderIndex(k) == CHOOSE i \in 1..Len(FixedOrder) : FixedOrder[i] = k

\* C3: whatever setters were called, in whatever order and however often,
\* build() returns keyword first, then a pair for an optional field exactly
\* when its setter was called, at most one per field, in the fixed order.
C3_KeywordFirstThenFixedOrder ==
    built.some =>
        LET b == built.v IN
        /\ Len(b) >= 1
        /\ b[1].k = "keyword"
        /\ b[1].v = search.keyword
        /\ \A i \in 2..Len(b) : \E n \in 1..Len(FixedOrder) : b[i].k = FixedOrder[n]
        /\ \A i \in 2..Len(b) : \A j \in 2..Len(b) :
              i < j => OrderIndex(b[i].k) < OrderIndex(b[j].k)
        /\ \A n \in 1..Len(FixedOrder) :
              (\E i \in 2..Len(b) : b[i].k = FixedOrder[n])
                  <=> (\E j \in 1..Len(hist) : hist[j].f = FixedOrder[n])

\* tmsid was set before provider, provider before provider-id, then build
C3_Witness ==
    /\ built.some
    /\ Len(hist) = 3
    /\ hist[1].f = "tmsid"
    /\ hist[2].f = "provider"
    /\ hist[3].f = "provider-id"
    /\ Len(built.v) = 4

Parses(item) == item.ok /\ Url_parse(item.location).kind = "Ok"

\* the position of the first item that is failed or whose location does not
\* parse, Len(stream) + 1 when every item is good
RECURSIVE FirstOffending(_)
FirstOffending(i) ==
    IF i > Len(stream) THEN i
    ELSE IF Parses(stream[i]) THEN FirstOffending(i + 1)
    ELSE i

\* C4: a response the stream yields to discover() with a location that does
\* not parse makes discover() return the URLParse error at once: no device
\* list, the response is not skipped, and nothing after it is taken from the
\* stream.  In terms of the whole stream: when the first response that is
\* not a successful, parseable one carries such a location, that is how the
\* call ends.
C4_MalformedLocationAbortsDiscovery ==
    /\ \A i \in 1..consumed :
          (stream[i].ok /\ ~Parses(stream[i])) =>
              /\ dpc = "done"
              /\ dresult.kind = "Err"
              /\ dresult.err.variant = "URLParse"
              /\ consumed = i
    /\ (dpc = "done" /\ searchOk) =>
          LET i == FirstOffending(1) IN
          (i <= Len(stream) /\ stream[i].ok) =>
              /\ dresult.kind = "Err"
              /\ dresult.err.variant = "URLParse"
              /\ consumed = i

\* a malformed location arrived after a device was collected and before
\* another response
C4_Witness ==
    /\ dpc = "done"
    /\ searchOk
    /\ Len(stream) = 3
    /\ Parses(stream[1])
    /\ stream[2].ok /\ ~Parses(stream[2])
    /\ Parses(stream[3])
    /\ Len(devices) = 1
    /\ dresult.kind = "Err"

\* C5: when the stream ends with every response successful and parseable,
\* discover() returns one Device per response, in arrival order, duplicates
\* kept; zero responses give the empty list, not an error.
C5_OneDevicePerResponseInOrder ==
    (dpc = "done" /\ searchOk /\ FirstOffending(1) > Len(stream)) =>
        /\ dresult.kind = "Ok"
        /\ Len(dresult.v) = Len(stream)
        /\ \A i \in 1..Len(stream) :
              Ok(dresult.v[i].url) = Url_parse(stream[i].location)

\* the same location arrived twice, around another one
C5_Witness ==
    /\ dpc = "done"
    /\ searchOk
    /\ Len(stream) = 3
    /\ stream[1] = stream[3]
    /\ stream[1] # stream[2]
    /\ dresult.kind = "Ok"
    /\ Len(dresult.v) = 3

KeyOps == {"keydown", "keyup", "keypress"}

\* C6: a key operation never reports success when the response status is
\* not 2xx.
C6_KeyOpSuccessOnly2xx ==
    (last.op \in KeyOps /\ result.kind = "Ok") =>
        /\ Len(net) = 1
        /\ net[1].ok
        /\ Is2xx(net[1].status)

\* the wire token the Key stands for: its own name, or Lit_<c>
KeyToken(key) == IF key.tag = "Lit" THEN <<"Lit_", key.c>> ELSE <<key.tag>>

\* C7: for every Key, the key operations POST to the base address followed
\* by exactly <op>/<KeyToken>: the whole token is in the path, untransformed,
\* and the URL has no query and no fragment.
C7_KeyUrlIsBasePlusOpAndToken ==
    (last.op \in KeyOps /\ sent # <<>>) =>
        /\ Len(sent) = 1
        /\ sent[1].method = "POST"
        /\ sent[1].url = [url EXCEPT !.path = url.path \o <<last.op, "/">>
                                                \o KeyToken(last.arg)]

Delivered == Len(sent) = 1 /\ Len(net) = 1 /\ net[1].ok /\ net[1].read

\* C8 as stated: state is the only required field of MediaPlayer, so a
\* well-formed document with state and no malformed field decodes.
C8_StateIsOnlyRequiredField ==
    (/\ last.op = "media_player"
     /\ Delivered
     /\ mpdoc.wf
     /\ mpdoc.f["state"] = "ok"
     /\ \A f \in MediaPlayerFields : mpdoc.f[f] # "bad")
        => result.kind = "Ok"

\* C8 amended: state and the error flag are the required fields of
\* MediaPlayer.  The query succeeds exactly on a well-formed document that
\* carries both and has no malformed field; every other field, when omitted,
\* decodes as absent; any other delivered document is the XMLParse error.
C8_StateAndErrorRequired ==
    (last.op = "media_player" /\ Delivered) =>
        /\ result.kind = "Ok" <=>
              /\ mpdoc.wf
              /\ mpdoc.f["state"] = "ok"
              /\ mpdoc.f["error"] = "ok"
              /\ \A f \in MediaPlayerFields : mpdoc.f[f] # "bad"
        /\ result.kind = "Ok" =>
              \A f \in MediaPlayerFields : result.v[f] = (mpdoc.f[f] = "ok")
        /\ result.kind # "Ok" =>
              result.kind = "Err" /\ result.err.variant = "XMLParse"

\* the document with state and error and nothing else was decoded
C8_Witness ==
    /\ last.op = "media_player"
    /\ Delivered
    /\ result.kind = "Ok"
    /\ result.v["state"] /\ result.v["error"]
    /\ \A f \in MediaPlayerFields \ {"state", "error"} :
          mpdoc.f[f] = "absent" /\ ~result.v[f]

QueryOps == {"apps", "active_app", "media_player", "device_info"}
CommandOps == {"keydown", "keyup", "keypress", "launch", "install", "input", "search"}

\* the local preconditions of the last operation: the base address can be
\* joined with a relative path, and launch/install have an app id
PreconditionsPass ==
    /\ url.base
    /\ last.op \in {"launch", "install"} => last.arg.id.some

\* C9: every operation hands the transport at most one request: exactly one
\* when its local preconditions pass, none otherwise; a failed send or body
\* read is returned as the Request error and a failed decode as the XMLParse
\* error, with no second request; success means the one request was answered.
C9_AtMostOneRequestFirstErrorReturned ==
    (last.op \in QueryOps \cup CommandOps) =>
        /\ Len(sent) <= 1
        /\ Len(net) = Len(sent)
        /\ Len(sent) = 1 <=> PreconditionsPass
        /\ Len(sent) = 0 => result.kind = "Err"
                            /\ result.err.variant \in {"URLParse", "Argument"}
        /\ (Len(sent) = 1 /\ ~net[1].ok) =>
              result.kind = "Err" /\ result.err.variant = "Request"
        /\ (Len(sent) = 1 /\ net[1].ok /\ last.op \in CommandOps) =>
              result.kind = "Ok"
        /\ (Len(sent) = 1 /\ net[1].ok /\ last.op \in QueryOps) =>
              /\ ~net[1].read =>
                    result.kind = "Err" /\ result.err.variant = "Request"
              /\ net[1].read =>
                    \/ result.kind = "Ok" /\ net[1].body.wf
                    \/ result.kind = "Err" /\ result.err.variant = "XMLParse"

\* apps() met a failed send and returned the Request error after one request
C9_Witness ==
    /\ last.op = "apps"
    /\ Len(sent) = 1
    /\ ~net[1].ok
    /\ result.kind = "Err"
    /\ result.err.variant = "Request"

\* C10: a failure of search(), or a failed item the stream yields to
\* discover(), makes discover() return the SSDPRequest error at once: the
\* devices collected so far are not returned and nothing after the failed
\* item is taken from the stream.  In terms of the whole stream: when the
\* first response that is not a successful, parseable one is a failed item,
\* that is how the call ends.
C10_TransportFailureAbortsDiscovery ==
    /\ \A i \in 1..consumed :
          ~stream[i].ok =>
              /\ dpc = "done"
              /\ dresult.kind = "Err"
              /\ dresult.err.variant = "SSDPRequest"
              /\ consumed = i
    /\ dpc = "done" =>
          LET i == FirstOffending(1) IN
          /\ ~searchOk =>
                /\ dresult.kind = "Err"
                /\ dresult.err.variant = "SSDPRequest"
                /\ consumed = 0
          /\ (searchOk /\ i <= Len(stream) /\ ~stream[i].ok) =>
                /\ dresult.kind = "Err"
                /\ dresult.err.variant = "SSDPRequest"
                /\ consumed = i

\* a failed item arrived after a device was collected and before another
\* response
C10_Witness ==
    /\ dpc = "done"
    /\ searchOk
    /\ Len(stream) = 3
    /\ Parses(stream[1])
    /\ ~stream[2].ok
    /\ Len(devices) = 1
    /\ consumed = 2
    /\ dresult.kind = "Err"

====
